---- MODULE Spec2Model ----
(***************************************************************************)
(* A model of the Huffman codec of src/main.py: create_queue, create_tree,  *)
(* search / parse_string, byte_string_generator / write_bytes,             *)
(* create_metadata / read_metadata, byte_array_gen, compress, uncompress.  *)
(*                                                                         *)
(* Strings are sequences of code points (a character is a sequence of      *)
(* length 1), bit strings are sequences over {0, 1} ('0' and '1'), byte    *)
(* arrays are sequences over 0..255.  Python's 0-based indices are kept in *)
(* the definitions' parameters and shifted by one where a sequence is read.*)
(***************************************************************************)
EXTENDS Integers, Sequences, FiniteSets, TLC

VARIABLES
    pc,            \* position of the run
    string,        \* compress: the text read from the input file
    queue,         \* the frequency list (create_queue's result, or the list given)
    work,          \* create_tree's local copy of the queue
    tree,          \* the root create_tree returned
    lookup_table,  \* the symbol -> path table filled by search
    byte_string,   \* the logical bit string (parse_string's result)
    padding,       \* the padding count given to create_metadata
    byte_array,    \* the bytes of the .bin file
    rqueue,        \* read_metadata: the list read back
    end_padding,   \* read_metadata: the padding read back
    gen,           \* byte_array_gen: the bits not yet consumed
    gen_raises,    \* byte_array_gen: whether it raises IndexError when drained
    current_node,  \* uncompress: the node of the tree walk
    characters,    \* uncompress: the symbols emitted so far
    output,        \* the text written to the .txt file
    outcome        \* "running", "ok", or the exception that ended the run

vars == <<pc, string, queue, work, tree, lookup_table, byte_string, padding,
          byte_array, rqueue, end_padding, gen, gen_raises, current_node,
          characters, output, outcome>>

(***************************************************************************)
(* Bounds of the model.                                                    *)
(***************************************************************************)
MaxLen == 5          \* longest enumerated input text
MaxSyms == 3         \* distinct symbols of an enumerated frequency list
MaxCount == 3        \* largest count of an enumerated frequency list
MaxBits == 9         \* longest enumerated bit string (packer / unpacker)
MaxWalkBits == 4     \* longest enumerated bit string fed to the tree walk
MaxEntries == 2      \* longest enumerated header list

ByteLimit == 256     \* a bytearray element is in range(0, 256)

(***************************************************************************)
(* Generic sequence helpers.                                               *)
(***************************************************************************)
Reverse(s) == [i \in 1..Len(s) |-> s[Len(s) + 1 - i]]

Zeros(n) == [i \in 1..n |-> 0]

IsPrefix(p, s) == Len(p) <= Len(s) /\ SubSeq(s, 1, Len(p)) = p

SeqsUpTo(S, n) == UNION {[1..k -> S] : k \in 0..n}

NONE == [class |-> "None"]

(***************************************************************************)
(* class Node, class Leaf.                                                 *)
(***************************************************************************)
Node(left, right, symbol, count) ==
    [class |-> "Node", left |-> left, right |-> right,
     symbol |-> symbol, count |-> count]

Leaf(symbol, count) == [class |-> "Leaf", symbol |-> symbol, count |-> count]

isinstance_Leaf(n) == n.class = "Leaf"

(***************************************************************************)
(* create_queue: count in first-seen order, then a stable sort by count.   *)
(***************************************************************************)
\* The OrderedDict after the loop of lines 53-57: a key enters at its first
\* occurrence and keeps that place; its value is the number of its occurrences.
counter(s) ==
    LET first == SelectSeq([i \in 1..Len(s) |-> i],
                           LAMBDA i : \A j \in 1..(i - 1) : s[j] # s[i])
    IN  [n \in 1..Len(first) |->
            [k |-> <<s[first[n]]>>,
             v |-> Cardinality({j \in 1..Len(s) : s[j] = s[first[n]]})]]

\* sorted(l, key=count): Python's sort is stable, so element i lands after
\* every element of smaller count and every earlier element of equal count.
sorted(l) ==
    LET rank == [i \in 1..Len(l) |->
                    Cardinality({j \in 1..Len(l) :
                        \/ l[j].count < l[i].count
                        \/ l[j].count = l[i].count /\ j <= i})]
    IN  [n \in 1..Len(l) |-> l[CHOOSE i \in 1..Len(l) : rank[i] = n]]

create_queue(s) ==
    LET c == counter(s)
    IN  sorted([i \in 1..Len(c) |-> Leaf(c[i].k, c[i].v)])

(***************************************************************************)
(* create_tree: one iteration of the while loop (merge), and the loop.     *)
(***************************************************************************)
\* insert_index with "<=" for "<" in the comparison of line 85: the new node
\* goes before the elements of equal count.
insert_index_before_equal(q, new_node) ==
    LET reached == {i \in 0..(Len(q) - 1) : new_node.count <= q[i + 1].count}
    IN  IF reached # {}
        THEN CHOOSE i \in reached : \A j \in reached : i <= j
        ELSE Len(q)

\* The for / else of lines 84-90: the index (0-based) where new_node goes.
insert_index(q, new_node) ==
    LET greater == {i \in 0..(Len(q) - 1) : new_node.count < q[i + 1].count}
    IN  IF greater # {}
        THEN CHOOSE i \in greater : \A j \in greater : i <= j
        ELSE Len(q)

merge(q) ==
    LET l == q[1]
        r == q[2]
        rest == SubSeq(q, 3, Len(q))
        new_node == Node(l, r, l.symbol \o r.symbol, l.count + r.count)
        i == insert_index(rest, new_node)
    IN  SubSeq(rest, 1, i) \o <<new_node>> \o SubSeq(rest, i + 1, Len(rest))

RECURSIVE create_tree_loop(_)
create_tree_loop(q) == IF Len(q) > 1 THEN create_tree_loop(merge(q)) ELSE q

\* queue[0] of an empty queue raises IndexError: callers test Len first.
create_tree(q) == create_tree_loop(q)[1]

(***************************************************************************)
(* search and parse_string.                                                *)
(***************************************************************************)
\* search_writes with path + '0' on both branches (line 225 a copy of line 224).
RECURSIVE search_writes_same_bit(_, _)
search_writes_same_bit(node, path) ==
    IF isinstance_Leaf(node)
    THEN node.symbol :> path
    ELSE search_writes_same_bit(node.right, path \o <<0>>)
         @@ search_writes_same_bit(node.left, path \o <<0>>)

\* The entries search writes while it visits the subtree of node: the left
\* subtree first, then the right one, a later write replacing an earlier one.
RECURSIVE search_writes(_, _)
search_writes(node, path) ==
    IF isinstance_Leaf(node)
    THEN node.symbol :> path
    ELSE search_writes(node.right, path \o <<1>>)
         @@ search_writes(node.left, path \o <<0>>)

\* lookup_table after search(current_node, path, lookup_table).
search(node, path, table) == search_writes(node, path) @@ table

EmptyTable == [x \in {} |-> <<>>]

\* ''.join(l): the concatenation of the elements of l, in order.
RECURSIVE concat(_)
concat(l) ==
    IF l = <<>> THEN <<>>
    ELSE IF Len(l) = 1 THEN l[1]
    ELSE LET h == Len(l) \div 2
         IN  concat(SubSeq(l, 1, h)) \o concat(SubSeq(l, h + 1, Len(l)))

\* ''.join([lookup_table[c] for c in string])
join(table, s) == concat([i \in 1..Len(s) |-> table[<<s[i]>>]])

parse_string(s, root) == join(search(root, <<>>, EmptyTable), s)

(***************************************************************************)
(* byte_string_generator and write_bytes.                                  *)
(***************************************************************************)
RECURSIVE byte_string_generator_from(_, _)
byte_string_generator_from(bits, pos) ==
    LET length == Len(bits) - 1
    IN  IF pos <= length
        THEN <<IF length - pos < 8
               THEN SubSeq(bits, pos + 1, Len(bits)) \o Zeros(7 - (length % 8))
               ELSE SubSeq(bits, pos + 1, pos + 8)>>
             \o byte_string_generator_from(bits, pos + 8)
        ELSE <<>>

byte_string_generator(bits) == byte_string_generator_from(bits, 0)

\* int(digits, 2): the digits read most significant first.
RECURSIVE int2(_)
int2(digits) ==
    IF digits = <<>> THEN 0
    ELSE 2 * int2(SubSeq(digits, 1, Len(digits) - 1)) + digits[Len(digits)]

\* The bytes write_bytes puts in the file: the metadata, then one byte a chunk.
write_bytes(bits, metadata) ==
    LET chunks == byte_string_generator(bits)
    IN  metadata \o [i \in 1..Len(chunks) |-> int2(Reverse(chunks[i]))]

\* The padding count compress passes to create_metadata (line 312).
compress_padding(bits) == 7 - (Len(bits) % 8)

(***************************************************************************)
(* create_metadata and read_metadata.                                      *)
(***************************************************************************)
ord(c) == c[1]

chr(b) == <<b>>

\* x >> i, x << i, x & 0xff and x ^ y on non-negative integers.
shr(x, i) == x \div (2 ^ i)

shl(x, i) == x * (2 ^ i)

and_ff(x) == x % 256

RECURSIVE xor(_, _)
xor(x, y) ==
    IF x = 0 /\ y = 0 THEN 0
    ELSE (((x % 2) + (y % 2)) % 2) + 2 * xor(x \div 2, y \div 2)

\* The five bytes of one pair (lines 133-136).
pair_bytes(node) ==
    <<ord(node.symbol)>>
    \o <<and_ff(shr(node.count, 24)), and_ff(shr(node.count, 16)),
         and_ff(shr(node.count, 8)), and_ff(shr(node.count, 0))>>

\* The pairs one after the other, in the order of the queue.
pairs_bytes(q) ==
    [n \in 1..(5 * Len(q)) |-> pair_bytes(q[((n - 1) \div 5) + 1])[((n - 1) % 5) + 1]]

\* bytearray.append raises ValueError unless the value is in range(0, 256).
create_metadata_raises(q, p) ==
    \/ p \notin 0..(ByteLimit - 1)
    \/ Len(q) \notin 0..(ByteLimit - 1)
    \/ \E i \in 1..Len(q) : ord(q[i].symbol) \notin 0..(ByteLimit - 1)

create_metadata(q, p) == <<p, Len(q)>> \o pairs_bytes(q)

\* The count of pair i (0-based), lines 157-159, read from byte j on.
RECURSIVE read_count(_, _, _, _)
read_count(bytes, j, stop, count) ==
    IF j < stop
    THEN read_count(bytes, j + 1, stop, xor(shl(count, 8), bytes[j + 1]))
    ELSE count

\* Indexing past the end of the bytes raises IndexError.
read_metadata_raises(bytes) ==
    \/ Len(bytes) < 2
    \/ Len(bytes) < bytes[2] * 5 + 2

read_metadata(bytes) ==
    LET pairs == bytes[2]
    IN  [queue |-> [n \in 1..pairs |->
                      LET i == n - 1
                      IN  Leaf(chr(bytes[i * 5 + 2 + 1]),
                               read_count(bytes, i * 5 + 3, i * 5 + 7, 0))],
         padding |-> bytes[1]]

(***************************************************************************)
(* byte_array_gen: the bits it yields, and whether it then raises.         *)
(***************************************************************************)
\* bin(n)[2:]
RECURSIVE bin(_)
bin(n) == IF n < 2 THEN <<n>> ELSE bin(n \div 2) \o <<n % 2>>

\* '{:0>8}'.format(digits)
format8(digits) ==
    IF Len(digits) < 8 THEN Zeros(8 - Len(digits)) \o digits ELSE digits

\* byte[:stop:-1] of a string of 8: from the last index down to stop + 1.
slice_down_to(byte, stop) ==
    [i \in 1..(IF stop < 7 THEN 7 - stop ELSE 0) |-> byte[8 - i + 1]]

RECURSIVE byte_array_gen_whole(_, _, _)
byte_array_gen_whole(bytes, pos, end_pos) ==
    IF pos < end_pos
    THEN Reverse(format8(bin(bytes[pos + 1])))
         \o byte_array_gen_whole(bytes, pos + 1, end_pos)
    ELSE <<>>

byte_array_gen(bytes, start_pos, padding_read) ==
    LET end_pos == IF padding_read # 0 THEN Len(bytes) - 1 ELSE Len(bytes)
        pos == IF start_pos < end_pos THEN end_pos ELSE start_pos
        whole == byte_array_gen_whole(bytes, start_pos, end_pos)
    IN  IF padding_read = 0
        THEN [bits |-> whole, raises |-> FALSE]
        ELSE IF pos >= Len(bytes)
        THEN [bits |-> whole, raises |-> TRUE]
        ELSE [bits |-> whole \o slice_down_to(format8(bin(bytes[pos + 1])),
                                              padding_read - 1),
              raises |-> FALSE]

(***************************************************************************)
(* The inputs.                                                             *)
(***************************************************************************)
\* 'a', 'b', 'c', ...
Alphabet == 97..(97 + MaxSyms - 1)

\* Every symbol 0..255 once, then 'a' twice more: 256 distinct symbols, and
\* 2063 code bits (not a multiple of 8).
FullText == [i \in 1..258 |-> IF i <= 256 THEN i - 1 ELSE 97]

Texts == SeqsUpTo(Alphabet, MaxLen) \cup {FullText}

Bits == {0, 1}

Symbols(s) == {s[i] : i \in 1..Len(s)}

(***************************************************************************)
(* create_tree (lines 76-92), called by compress and by uncompress: one    *)
(* iteration of the while loop, and the return.                            *)
(***************************************************************************)
InCreateTree == pc \in {"compress_tree", "uncompress_tree", "create_tree"}

CreateTreeLoop ==
    /\ InCreateTree
    /\ Len(work) > 1
    /\ work' = merge(work)
    /\ UNCHANGED <<pc, string, queue, tree, lookup_table, byte_string, padding,
                   byte_array, rqueue, end_padding, gen, gen_raises,
                   current_node, characters, output, outcome>>

\* return queue[0]; uncompress then sets current_node = tree (line 276).
CreateTreeReturn ==
    /\ InCreateTree
    /\ Len(work) <= 1
    /\ IF work = <<>>
       THEN \* queue[0] of an empty list
            /\ pc' = "failed"
            /\ outcome' = "IndexError"
            /\ UNCHANGED <<tree, current_node>>
       ELSE /\ tree' = work[1]
            /\ current_node' = IF pc = "uncompress_tree" THEN work[1]
                                                         ELSE current_node
            /\ pc' = CASE pc = "compress_tree" -> "compress_encode"
                       [] pc = "uncompress_tree" -> "walk"
                       [] OTHER -> "search"
            /\ UNCHANGED outcome
    /\ UNCHANGED <<string, queue, work, lookup_table, byte_string, padding,
                   byte_array, rqueue, end_padding, gen, gen_raises,
                   characters, output>>

(***************************************************************************)
(* compress (lines 297-313): up to the call of create_tree, and after it.  *)
(***************************************************************************)
CompressQueue ==
    /\ pc = "compress"
    /\ queue' = create_queue(string)
    /\ work' = queue'
    /\ pc' = "compress_tree"
    /\ UNCHANGED <<string, tree, lookup_table, byte_string, padding,
                   byte_array, rqueue, end_padding, gen, gen_raises,
                   current_node, characters, output, outcome>>

CompressWrite ==
    /\ pc = "compress_encode"
    /\ LET table == search(tree, <<>>, EmptyTable)
           bs == join(table, string)
           p == compress_padding(bs)
       IN  /\ lookup_table' = table
           /\ byte_string' = bs
           /\ padding' = p
           /\ IF create_metadata_raises(queue, p)
              THEN /\ pc' = "failed"
                   /\ outcome' = "ValueError"
                   /\ UNCHANGED byte_array
              ELSE /\ byte_array' = write_bytes(bs, create_metadata(queue, p))
                   /\ pc' = "uncompress"
                   /\ UNCHANGED outcome
    /\ UNCHANGED <<string, queue, work, tree, rqueue, end_padding, gen,
                   gen_raises, current_node, characters, output>>

(***************************************************************************)
(* uncompress (lines 255-294): up to the call of create_tree, one          *)
(* iteration of the loop over the bits, and the end of the loop.           *)
(***************************************************************************)
UncompressOpen ==
    /\ pc = "uncompress"
    /\ IF read_metadata_raises(byte_array)
       THEN /\ pc' = "failed"
            /\ outcome' = "IndexError"
            /\ UNCHANGED <<rqueue, end_padding, gen, gen_raises, work>>
       ELSE LET m == read_metadata(byte_array)
                start_pos == Len(m.queue) * 5 + 2
                g == byte_array_gen(byte_array, start_pos, m.padding)
            IN  /\ rqueue' = m.queue
                /\ end_padding' = m.padding
                /\ gen' = g.bits
                /\ gen_raises' = g.raises
                /\ work' = m.queue
                /\ pc' = "uncompress_tree"
                /\ UNCHANGED outcome
    /\ UNCHANGED <<string, queue, tree, lookup_table, byte_string, padding,
                   byte_array, current_node, characters, output>>

\* One iteration of "for c in gen" (lines 278-291).
UncompressLoop ==
    /\ pc = "walk"
    /\ gen # <<>>
    /\ LET c == Head(gen)
       IN  /\ gen' = Tail(gen)
           /\ IF isinstance_Leaf(current_node)
              THEN /\ characters' = Append(characters, current_node.symbol)
                   /\ IF isinstance_Leaf(tree)
                      THEN \* a Leaf has no attribute left or right
                           /\ pc' = "failed"
                           /\ outcome' = "AttributeError"
                           /\ UNCHANGED current_node
                      ELSE /\ current_node' = IF c = 1 THEN tree.right
                                                       ELSE tree.left
                           /\ UNCHANGED <<pc, outcome>>
              ELSE /\ current_node' = IF c = 1 THEN current_node.right
                                               ELSE current_node.left
                   /\ UNCHANGED <<pc, outcome, characters>>
    /\ UNCHANGED <<string, queue, work, tree, lookup_table, byte_string,
                   padding, byte_array, rqueue, end_padding, gen_raises, output>>

\* The generator is drained: it raises (line 248), or the loop ends and the
\* text is written (lines 293-294).
UncompressWrite ==
    /\ pc = "walk"
    /\ gen = <<>>
    /\ IF gen_raises
       THEN /\ pc' = "failed"
            /\ outcome' = "IndexError"
            /\ UNCHANGED output
       ELSE /\ output' = concat(characters)
            /\ pc' = "done"
            /\ outcome' = "ok"
    /\ UNCHANGED <<string, queue, work, tree, lookup_table, byte_string,
                   padding, byte_array, rqueue, end_padding, gen, gen_raises,
                   current_node, characters>>

(***************************************************************************)
(* Spec: compress a text, then uncompress the file it wrote.               *)
(***************************************************************************)
Init ==
    /\ pc = "compress"
    /\ string \in Texts
    /\ queue = <<>>
    /\ work = <<>>
    /\ tree = NONE
    /\ lookup_table = EmptyTable
    /\ byte_string = <<>>
    /\ padding = 0
    /\ byte_array = <<>>
    /\ rqueue = <<>>
    /\ end_padding = 0
    /\ gen = <<>>
    /\ gen_raises = FALSE
    /\ current_node = NONE
    /\ characters = <<>>
    /\ output = <<>>
    /\ outcome = "running"

Next ==
    \/ CompressQueue
    \/ CreateTreeLoop
    \/ CreateTreeReturn
    \/ CompressWrite
    \/ UncompressOpen
    \/ UncompressLoop
    \/ UncompressWrite

Spec == Init /\ [][Next]_vars

(***************************************************************************)
(* SpecTree: create_tree on a frequency list, then search on its root.     *)
(***************************************************************************)
SortedByCount(q) == \A i \in 1..(Len(q) - 1) : q[i].count <= q[i + 1].count

\* The lists create_queue can return: Leafs of distinct symbols, ascending by
\* count, equal counts in any order.
FreqLists ==
    UNION {{[i \in 1..k |-> Leaf(<<f[i][1]>>, f[i][2])] :
              f \in {g \in [1..k -> Alphabet \X (1..MaxCount)] :
                       /\ \A i, j \in 1..k : i # j => g[i][1] # g[j][1]
                       /\ \A i \in 1..(k - 1) : g[i][2] <= g[i + 1][2]}} :
           k \in 1..MaxSyms}

\* parse_string's first two lines: lookup_table = {}; search(tree, '', lookup_table).
Search ==
    /\ pc = "search"
    /\ lookup_table' = search(tree, <<>>, EmptyTable)
    /\ pc' = "searched"
    /\ UNCHANGED <<string, queue, work, tree, byte_string, padding, byte_array,
                   rqueue, end_padding, gen, gen_raises, current_node,
                   characters, output, outcome>>

InitTree ==
    /\ pc = "create_tree"
    /\ queue \in FreqLists
    /\ work = queue
    /\ string = <<>>
    /\ tree = NONE
    /\ lookup_table = EmptyTable
    /\ byte_string = <<>>
    /\ padding = 0
    /\ byte_array = <<>>
    /\ rqueue = <<>>
    /\ end_padding = 0
    /\ gen = <<>>
    /\ gen_raises = FALSE
    /\ current_node = NONE
    /\ characters = <<>>
    /\ output = <<>>
    /\ outcome = "running"

NextTree == CreateTreeLoop \/ CreateTreeReturn \/ Search

SpecTree == InitTree /\ [][NextTree]_vars

(***************************************************************************)
(* SpecWalk: the tree walk of uncompress on any bits a payload can hold.   *)
(***************************************************************************)
InitWalk ==
    /\ pc = "walk"
    /\ queue \in FreqLists
    /\ rqueue = queue
    /\ work = create_tree_loop(queue)
    /\ tree = create_tree(queue)
    /\ current_node = tree
    /\ byte_string \in SeqsUpTo(Bits, MaxWalkBits)
    /\ gen = byte_string
    /\ gen_raises = FALSE
    /\ string = <<>>
    /\ lookup_table = EmptyTable
    /\ padding = 0
    /\ byte_array = <<>>
    /\ end_padding = 0
    /\ characters = <<>>
    /\ output = <<>>
    /\ outcome = "running"

NextWalk == UncompressLoop \/ UncompressWrite

SpecWalk == InitWalk /\ [][NextWalk]_vars

(***************************************************************************)
(* SpecPack: write_bytes on a bit string with the padding count of line    *)
(* 312, then byte_array_gen on the payload it wrote.                       *)
(***************************************************************************)
WriteBytes ==
    /\ pc = "write_bytes"
    /\ padding' = compress_padding(byte_string)
    /\ byte_array' = write_bytes(byte_string, <<>>)
    /\ pc' = "byte_array_gen"
    /\ UNCHANGED <<string, queue, work, tree, lookup_table, byte_string,
                   rqueue, end_padding, gen, gen_raises, current_node,
                   characters, output, outcome>>

ByteArrayGen ==
    /\ pc = "byte_array_gen"
    /\ LET g == byte_array_gen(byte_array, 0, padding)
       IN  /\ gen' = g.bits
           /\ gen_raises' = g.raises
           /\ outcome' = IF g.raises THEN "IndexError" ELSE "ok"
    /\ end_padding' = padding
    /\ pc' = "unpacked"
    /\ UNCHANGED <<string, queue, work, tree, lookup_table, byte_string,
                   padding, byte_array, rqueue, current_node, characters,
                   output>>

InitPack ==
    /\ pc = "write_bytes"
    /\ byte_string \in SeqsUpTo(Bits, MaxBits)
    /\ string = <<>>
    /\ queue = <<>>
    /\ work = <<>>
    /\ tree = NONE
    /\ lookup_table = EmptyTable
    /\ padding = 0
    /\ byte_array = <<>>
    /\ rqueue = <<>>
    /\ end_padding = 0
    /\ gen = <<>>
    /\ gen_raises = FALSE
    /\ current_node = NONE
    /\ characters = <<>>
    /\ output = <<>>
    /\ outcome = "running"

NextPack == WriteBytes \/ ByteArrayGen

SpecPack == InitPack /\ [][NextPack]_vars

(***************************************************************************)
(* SpecMeta: create_metadata on a frequency list and a padding count, then *)
(* read_metadata on the bytes.                                             *)
(***************************************************************************)
MetaSymbols == {0, 97, 255}

\* Counts with every byte of the 32-bit field in use.  The largest is
\* 2^31 - 1: the field goes to 2^32 - 1, the model's integers do not.
MetaCounts == {1, 255, 256, 65537, 16909060, 2147483647}

\* 256 entries: every symbol 0..255 with count 1.
FullList == [i \in 1..256 |-> Leaf(<<i - 1>>, 1)]

\* 255 entries: the longest list whose length fits the entry-count byte.
LongList == [i \in 1..255 |-> Leaf(<<i>>, 1)]

HeaderLists ==
    UNION {{[i \in 1..k |-> Leaf(<<f[i][1]>>, f[i][2])] :
              f \in {g \in [1..k -> MetaSymbols \X MetaCounts] :
                       /\ \A i, j \in 1..k : i # j => g[i][1] # g[j][1]
                       /\ \A i \in 1..(k - 1) : g[i][2] <= g[i + 1][2]}} :
           k \in 0..MaxEntries}
    \cup {FullList, LongList}

CreateMetadata ==
    /\ pc = "create_metadata"
    /\ IF create_metadata_raises(queue, padding)
       THEN /\ pc' = "failed"
            /\ outcome' = "ValueError"
            /\ UNCHANGED byte_array
       ELSE /\ byte_array' = create_metadata(queue, padding)
            /\ pc' = "read_metadata"
            /\ UNCHANGED outcome
    /\ UNCHANGED <<string, queue, work, tree, lookup_table, byte_string,
                   padding, rqueue, end_padding, gen, gen_raises,
                   current_node, characters, output>>

ReadMetadata ==
    /\ pc = "read_metadata"
    /\ IF read_metadata_raises(byte_array)
       THEN /\ pc' = "failed"
            /\ outcome' = "IndexError"
            /\ UNCHANGED <<rqueue, end_padding>>
       ELSE LET m == read_metadata(byte_array)
            IN  /\ rqueue' = m.queue
                /\ end_padding' = m.padding
                /\ pc' = "metadata_read"
                /\ outcome' = "ok"
    /\ UNCHANGED <<string, queue, work, tree, lookup_table, byte_string,
                   padding, byte_array, gen, gen_raises, current_node,
                   characters, output>>

InitMeta ==
    /\ pc = "create_metadata"
    /\ queue \in HeaderLists
    /\ padding \in 0..7
    /\ string = <<>>
    /\ work = <<>>
    /\ tree = NONE
    /\ lookup_table = EmptyTable
    /\ byte_string = <<>>
    /\ byte_array = <<>>
    /\ rqueue = <<>>
    /\ end_padding = 0
    /\ gen = <<>>
    /\ gen_raises = FALSE
    /\ current_node = NONE
    /\ characters = <<>>
    /\ output = <<>>
    /\ outcome = "running"

NextMeta == CreateMetadata \/ ReadMetadata

SpecMeta == InitMeta /\ [][NextMeta]_vars

(***************************************************************************)
(* The properties.                                                         *)
(***************************************************************************)
Ended == pc \in {"done", "failed"}

Distinct(s) == Cardinality(Symbols(s))

\* C1 (Spec): for every non-empty input text, uncompress of the bytes compress
\* wrote ends normally and writes exactly the input text, also when the
\* encoded bit length is a multiple of 8.
C1_RoundTrip ==
    (Ended /\ string # <<>>) => (outcome = "ok" /\ output = string)

\* C1's boundary case alone: at least two distinct symbols and an encoded bit
\* length that is a multiple of 8.
RoundTripAtMultipleOf8 ==
    (Ended /\ Distinct(string) >= 2 /\ Len(byte_string) % 8 = 0) =>
        (outcome = "ok" /\ output = string)

\* C2 (SpecPack): for every non-empty bit string, byte_array_gen on the payload
\* write_bytes packed, with the padding count compress computes for its
\* length, yields exactly the bit string: no bit missing, no bit added.
C2_UnpackInvertsPack ==
    (pc = "unpacked" /\ byte_string # <<>>) =>
        (~gen_raises /\ gen = byte_string)

\* C3 (SpecPack): for every bit length L >= 1 the padding count compress
\* stores is in 0..7 and is the number of filler bits the packer appended to
\* the last payload byte: (L + padding) mod 8 = 0.
C3_PaddingIsFillerCount ==
    (pc \in {"byte_array_gen", "unpacked"} /\ byte_string # <<>>) =>
        /\ padding \in 0..7
        /\ padding = 8 * Len(byte_array) - Len(byte_string)
        /\ (Len(byte_string) + padding) % 8 = 0

\* C4 (SpecMeta): for every valid frequency list and every padding 0..7,
\* read_metadata of create_metadata's bytes returns the same padding and a list
\* of the same symbols and counts in the same order.
C4_HeaderRoundTrip ==
    /\ pc # "failed"
    /\ pc = "metadata_read" => (end_padding = padding /\ rqueue = queue)

C6_SingleSymbol ==
    (Ended /\ Distinct(string) = 1) =>
        /\ isinstance_Leaf(tree)
        /\ lookup_table = (<<string[1]>> :> <<>>)
        /\ outcome = "ok"
        /\ output = string

\* C7 (SpecWalk): when the bits are exhausted while the walk stands on an
\* Internal node it entered by a bit (the payload ends inside a symbol's
\* code), uncompress ends in an error: it does not complete and write the
\* output with the unfinished symbol dropped.
C7_TruncatedPayloadFails ==
    (pc = "done" /\ byte_string # <<>>) => isinstance_Leaf(current_node)

\* C9 (SpecWalk): over a tree of at least two leaves, the walk fed exactly the
\* concatenated codes of a text writes every symbol of the text, the last one
\* included (the Leaf it stands on when the bits are exhausted is emitted).
C9_ExactCodesDecode ==
    (pc = "done" /\ Len(queue) >= 2) =>
        \A t \in SeqsUpTo({queue[i].symbol[1] : i \in 1..Len(queue)}, MaxWalkBits) :
            parse_string(t, tree) = byte_string => output = t

\* C8 (SpecTree): in create_tree on a list sorted ascending by count, the
\* queue is sorted at the start of every iteration, and an iteration removes
\* the first two nodes and puts the node merged from them (left the first,
\* right the second, count their sum) right before the first remaining node
\* of strictly greater count, after every remaining node of equal count, or
\* at the end when there is none.
C8_Iteration ==
    InCreateTree =>
        /\ SortedByCount(work)
        /\ Len(work) > 1 =>
              LET rest == SubSeq(work, 3, Len(work))
                  new_node == Node(work[1], work[2],
                                   work[1].symbol \o work[2].symbol,
                                   work[1].count + work[2].count)
              IN  \E i \in 1..Len(work') :
                     /\ work'[i] = new_node
                     /\ SubSeq(work', 1, i - 1) \o SubSeq(work', i + 1, Len(work'))
                          = rest
                     /\ \A j \in 1..(i - 1) : work'[j].count <= new_node.count
                     /\ \A j \in (i + 1)..Len(work') :
                           work'[j].count > new_node.count

C8_MergeInsertion == [][C8_Iteration]_vars

\* A merged node stands right after a Leaf of the same count.
C8_Witness ==
    /\ InCreateTree
    /\ \E i \in 2..Len(work) :
          /\ work[i].class = "Node"
          /\ work[i - 1].class = "Leaf"
          /\ work[i - 1].count = work[i].count

\* C10 (Spec): for every input text of at least two distinct symbols whose
\* encoded bit length is not a multiple of 8, byte_array_gen yields the code
\* bits followed by exactly one filler 0 bit, and uncompress of compress's
\* output returns exactly the input: the filler bit makes the walk emit the
\* last symbol, and nothing after it.
C10_FillerBitRoundTrip ==
    (Distinct(string) >= 2 /\ Len(byte_string) % 8 # 0) =>
        /\ pc = "uncompress_tree" => gen = byte_string \o <<0>>
        /\ Ended => (outcome = "ok" /\ output = string)

\* What holds of C10's case while the list fits the entry-count byte: the
\* same statement for at most 255 distinct symbols.
FillerBitRoundTripUpTo255 ==
    (Distinct(string) >= 2 /\ Distinct(string) < ByteLimit
       /\ Len(byte_string) % 8 # 0) =>
        /\ pc = "uncompress_tree" => gen = byte_string \o <<0>>
        /\ Ended => (outcome = "ok" /\ output = string)

====
